---- MODULE Spec2Model ----
(***************************************************************************)
(* Model of the rewind library: a persistent voxel World, a WorldLine      *)
(* (ordered transaction log) and the Rewind facade that guards both with   *)
(* two RwLocks.  Callers are processes; every lock acquisition is a step,  *)
(* the undo-chain walk of WorldLine::get_undo_history is one step per loop *)
(* iteration.                                                              *)
(***************************************************************************)
EXTENDS Integers, Sequences, FiniteSets, TLC

\* ------------------------------------------------------------------ bounds
\* Most transactions the log may hold.
MaxLog == 2
\* Most elements kept of the Vec built by one get_undo_history call; a push
\* beyond it leaves the recorded Vec as it is.
MaxWalk == 2
\* Most transactions the log may hold in the undo scenarios.
MaxUndoLog == 3
\* Side of the Cuboid a direct user of storage:: works on; indices run to Side,
\* one past the last one in bounds.
Side == 2
\* Most writes that user makes.
MaxOps == 2

\* --------------------------------------------------------- program constants
CHUNK_SIZE == 256

\* ------------------------------------------------------------------ options
None == [some |-> FALSE]
Some(v) == [some |-> TRUE, val |-> v]

\* ------------------------------------------------------------------ blocks
Block(provider, id) == [provider |-> provider, id |-> id]
MetaData(data_value) == [data_value |-> data_value]
BlankMeta == MetaData(None)
fuse(block, meta) == [block |-> block, meta_data |-> meta]

\* The block states callers use: plain stone, stone with a data value, water.
Stone == fuse(Block(0, 0), BlankMeta)
StoneV == fuse(Block(0, 0), MetaData(Some(1)))
Water == fuse(Block(0, 1), BlankMeta)
BlockStates == {Stone, StoneV, Water}
\* The block states callers write.
SetBlocks == {Stone, Water}
\* The default blocks a Rewind is constructed with.
DefaultBlocks == {Stone, StoneV}
\* The coordinates callers use.
Coords == {<<1, 0, 0>>, <<2, 0, 0>>}

\* ------------------------------------------------------------ TransactionID
TransactionID(id, sub_id) == [id |-> id, sub_id |-> sub_id]
new_id == TransactionID(0, 0)
increment_major_wrong(t) == TransactionID(t.id, t.sub_id)
\* id is a u32; the log is capped at MaxLog entries, far below 2^32, so id + 1
\* never overflows here.
increment_major(t) == TransactionID(t.id + 1, 0)
\* Ordering: -1 Less, 0 Equal, 1 Greater
cmp_u32(a, b) == IF a < b THEN -1 ELSE IF a = b THEN 0 ELSE 1
cmp_minor_first(a, b) ==
    IF a.sub_id = b.sub_id THEN cmp_u32(a.id, b.id) ELSE cmp_u32(a.sub_id, b.sub_id)
cmp(a, b) == IF a.id = b.id THEN cmp_u32(a.sub_id, b.sub_id) ELSE cmp_u32(a.id, b.id)

\* ---------------------------------------------------------- transactions
new_set(block) == [kind |-> "Set", block_set |-> block]
new_replace(original, replacement) ==
    [kind |-> "Replace", block_current |-> original, block_set |-> replacement]
new_undo(transaction) == [kind |-> "Undo", transaction |-> transaction]
RawTransaction(transaction_type, coords) ==
    [transaction_type |-> transaction_type, coords |-> coords]
Transaction(transaction, id) == [transaction |-> transaction, id |-> id]
is_undo(t) == t.transaction.transaction_type.kind = "Undo"
\* RawTransactionBuilder: the type and the three optional coordinates (owner
\* and time play no part in what follows).
RawTransactionBuilder(transaction_type, coord_x, coord_y, coord_z) ==
    [transaction_type |-> transaction_type,
     coord_x |-> coord_x, coord_y |-> coord_y, coord_z |-> coord_z]
build_transaction(b) ==
    LET coords == IF b.coord_x.some /\ b.coord_y.some /\ b.coord_z.some
                  THEN Some(<<b.coord_x.val, b.coord_y.val, b.coord_z.val>>)
                  ELSE None
        transaction == RawTransaction(b.transaction_type, coords)
    IN  CASE b.transaction_type.kind = "Set" ->
                IF coords.some THEN Some(transaction) ELSE None
          [] b.transaction_type.kind = "Replace" ->
                IF coords.some THEN Some(transaction) ELSE None
          [] b.transaction_type.kind = "Undo" -> Some(transaction)

\* ------------------------------------------------------------ partial maps
MapGet(m, k) == IF k \in DOMAIN m THEN Some(m[k]) ELSE None
MapInsert(m, k, v) == [j \in DOMAIN m \cup {k} |-> IF j = k THEN v ELSE m[j]]
EmptyMap == [j \in {} |-> None]

\* ------------------------------------------------------- storage primitives
\* A Slice is its written cells (coordinate -> value) and its default.
SliceNew(x_size, y_size, default) ==
    [cells |-> EmptyMap, default |-> default, x_size |-> x_size, y_size |-> y_size]
SliceGet(s, x, y) ==
    IF x >= s.x_size \/ y >= s.y_size THEN s.default
    ELSE IF <<x, y>> \in DOMAIN s.cells THEN s.cells[<<x, y>>] ELSE s.default
SliceSet(s, x, y, value) == [s EXCEPT !.cells = MapInsert(s.cells, <<x, y>>, value)]

\* A Cuboid is a Purse of z_size slices, all the prototype slice until set;
\* data holds the layers that differ from the prototype.
CuboidNew(x_size, y_size, z_size, default) ==
    [data |-> EmptyMap, proto |-> SliceNew(x_size, y_size, default), default |-> default,
     x_size |-> x_size, y_size |-> y_size, z_size |-> z_size]
CuboidLayer(c, z) == IF z \in DOMAIN c.data THEN c.data[z] ELSE c.proto
CuboidGet(c, x, y, z) ==
    IF x >= c.x_size \/ y >= c.y_size \/ z >= c.z_size THEN c.default
    ELSE SliceGet(CuboidLayer(c, z), x, y)
CuboidSet(c, x, y, z, value) ==
    IF x >= c.x_size \/ y >= c.y_size \/ z >= c.z_size THEN None
    ELSE Some([c EXCEPT !.data = MapInsert(c.data, z, SliceSet(CuboidLayer(c, z), x, y, value))])
unwrap_or(opt, dflt) == IF opt.some THEN opt.val ELSE dflt

\* ------------------------------------------------------------------ Chunk
ChunkNew(default_blk) ==
    [blocks |-> CuboidNew(CHUNK_SIZE, CHUNK_SIZE, CHUNK_SIZE, default_blk),
     meta_data |-> CuboidNew(CHUNK_SIZE, CHUNK_SIZE, CHUNK_SIZE, BlankMeta)]
ChunkGetBlock(chunk, x, y, z) ==
    fuse(CuboidGet(chunk.blocks, x, y, z), CuboidGet(chunk.meta_data, x, y, z))
ChunkSetBlock(chunk, x, y, z, block) ==
    [blocks |-> unwrap_or(CuboidSet(chunk.blocks, x, y, z, block.block), chunk.blocks),
     meta_data |-> unwrap_or(CuboidSet(chunk.meta_data, x, y, z, block.meta_data),
                             chunk.meta_data)]

\* ------------------------------------------------------------------ World
\* The least i32. abs() of it overflows: a build with overflow checks (the
\* default of debug builds) panics there, a build without them returns it.
I32_MIN == -2147483647 - 1
abs_overflows(x) == x = I32_MIN
abs(x) == IF abs_overflows(x) THEN x ELSE IF x < 0 THEN -x ELSE x
\* Rust's %: the remainder has the sign of the dividend.
rem(x, n) == IF x % n = 0 THEN 0 ELSE IF x >= 0 THEN x % n ELSE (x % n) - n
WorldNew(default_blk) ==
    [chunks |-> EmptyMap, default_block |-> default_blk, chunk_size |-> CHUNK_SIZE]
get_chunk_index(w, x, y) == <<x - rem(x, w.chunk_size), y - rem(y, w.chunk_size)>>
\* (x.abs() as usize) % chunk_size; the cast of a negative abs() adds a power of
\* two that chunk_size divides, so the result is abs() modulo chunk_size.
convert_coords(w, x, y, z) ==
    <<abs(x) % w.chunk_size, abs(y) % w.chunk_size, abs(z) % w.chunk_size>>
convert_coords_overflows(x, y, z) == abs_overflows(x) \/ abs_overflows(y) \/ abs_overflows(z)
get_block_at(w, x, y, z) ==
    LET chunk == MapGet(w.chunks, get_chunk_index(w, x, y))
        c == convert_coords(w, x, y, z)
    IN  IF chunk.some THEN Some(ChunkGetBlock(chunk.val, c[1], c[2], c[3])) ELSE None
get_block_defaulting(w, x, y, z) == unwrap_or(get_block_at(w, x, y, z), w.default_block)
set_block_defaulting(w, x, y, z, block) ==
    LET index == get_chunk_index(w, x, y)
        c == convert_coords(w, x, y, z)
        old_chunk == unwrap_or(MapGet(w.chunks, index), ChunkNew(w.default_block.block))
    IN  [w EXCEPT !.chunks = MapInsert(w.chunks, index,
                                       ChunkSetBlock(old_chunk, c[1], c[2], c[3], block))]

\* ------------------------------------------------- storage behind its Arcs
\* The same structures with the Arcs of storage::purse spelled out. heap is
\* the sequence of the values behind every Arc allocated so far and an Arc is
\* an index into it; a Purse (Vec<Arc<T>>) maps 0..len-1 to Arcs. Every
\* operation takes the heap and returns the heap it leaves.
ArcNew(heap, element) == [heap |-> Append(heap, element), arc |-> Len(heap) + 1]
PurseNewFilled(heap, length, element) ==
    LET a == ArcNew(heap, element)
    IN  [heap |-> a.heap, purse |-> [i \in 0..(length - 1) |-> a.arc]]
PurseSetInPlace(heap, purse, index, element) ==
    [heap |-> [heap EXCEPT ![purse[index]] = element], purse |-> purse]
PurseSetCopied(heap, purse, index, element) ==
    LET len == Cardinality(DOMAIN purse)
    IN  [heap |-> heap \o [i \in 1..len |-> IF i - 1 = index THEN element
                                          ELSE heap[purse[i - 1]]],
         purse |-> [i \in DOMAIN purse |-> Len(heap) + i + 1]]
PurseSet(heap, purse, index, element) ==
    LET a == ArcNew(heap, element)
    IN  [heap |-> a.heap, purse |-> [purse EXCEPT ![index] = a.arc]]
PurseIndex(heap, purse, i) == heap[purse[i]]
PurseNew == EmptyMap
PurseLen(purse) == Cardinality(DOMAIN purse)
PursePushFresh(heap, purse, element) ==
    LET len == PurseLen(purse)
    IN  [heap |-> heap \o [i \in 1..(len + 1) |-> IF i = len + 1 THEN element
                                                 ELSE heap[purse[i - 1]]],
         purse |-> [i \in 0..len |-> Len(heap) + i + 1]]
PursePush(heap, purse, element) ==
    LET a == ArcNew(heap, element)
    IN  [heap |-> a.heap,
         purse |-> [i \in 0..PurseLen(purse) |-> IF i \in DOMAIN purse THEN purse[i]
                                                 ELSE a.arc]]

\* ArrayMatrix: a Purse of x_size * y_size Options, None until set.
ArrayMatrixNew(heap, x_size, y_size) ==
    LET filled == PurseNewFilled(heap, x_size * y_size, None)
    IN  [heap |-> filled.heap,
         matrix |-> [data |-> filled.purse, x_size |-> x_size, y_size |-> y_size]]
ArrayMatrixSlot(m, x, y) == x * m.x_size + y
ArrayMatrixGet(heap, m, x, y) == PurseIndex(heap, m.data, ArrayMatrixSlot(m, x, y))
ArrayMatrixSet(heap, m, x, y, data) ==
    LET set == PurseSet(heap, m.data, ArrayMatrixSlot(m, x, y), Some(data))
    IN  [heap |-> set.heap, matrix |-> [m EXCEPT !.data = set.purse]]

ArcCuboidNew(heap, x_size, y_size, z_size, default) ==
    LET filled == PurseNewFilled(heap, z_size, SliceNew(x_size, y_size, default))
    IN  [heap |-> filled.heap,
         cuboid |-> [data |-> filled.purse, default |-> default,
                     x_size |-> x_size, y_size |-> y_size, z_size |-> z_size]]
ArcCuboidGet(heap, c, x, y, z) ==
    IF x >= c.x_size \/ y >= c.y_size \/ z >= c.z_size THEN c.default
    ELSE SliceGet(PurseIndex(heap, c.data, z), x, y)
ArcCuboidSetTransposed(heap, c, x, y, z, value) ==
    IF x >= c.x_size \/ y >= c.y_size \/ z >= c.z_size
    THEN [heap |-> heap, value |-> None]
    ELSE LET new_slice == SliceSet(PurseIndex(heap, c.data, z), y, x, value)
             new_purse == PurseSet(heap, c.data, z, new_slice)
         IN  [heap |-> new_purse.heap,
              value |-> Some([c EXCEPT !.data = new_purse.purse])]
ArcCuboidSet(heap, c, x, y, z, value) ==
    IF x >= c.x_size \/ y >= c.y_size \/ z >= c.z_size
    THEN [heap |-> heap, value |-> None]
    ELSE LET new_slice == SliceSet(PurseIndex(heap, c.data, z), x, y, value)
             new_purse == PurseSet(heap, c.data, z, new_slice)
         IN  [heap |-> new_purse.heap,
              value |-> Some([c EXCEPT !.data = new_purse.purse])]

ArcChunkNew(heap, default_blk) ==
    LET blocks == ArcCuboidNew(heap, CHUNK_SIZE, CHUNK_SIZE, CHUNK_SIZE, default_blk)
        meta_data == ArcCuboidNew(blocks.heap, CHUNK_SIZE, CHUNK_SIZE, CHUNK_SIZE, BlankMeta)
    IN  [heap |-> meta_data.heap,
         chunk |-> [blocks |-> blocks.cuboid, meta_data |-> meta_data.cuboid]]
ArcChunkGetBlock(heap, chunk, x, y, z) ==
    fuse(ArcCuboidGet(heap, chunk.blocks, x, y, z),
         ArcCuboidGet(heap, chunk.meta_data, x, y, z))
ArcChunkSetBlock(heap, chunk, x, y, z, block) ==
    LET blocks == ArcCuboidSet(heap, chunk.blocks, x, y, z, block.block)
        meta_data == ArcCuboidSet(blocks.heap, chunk.meta_data, x, y, z, block.meta_data)
    IN  [heap |-> meta_data.heap,
         chunk |-> [blocks |-> unwrap_or(blocks.value, chunk.blocks),
                    meta_data |-> unwrap_or(meta_data.value, chunk.meta_data)]]

arc_get_block_at(heap, w, x, y, z) ==
    LET chunk == MapGet(w.chunks, get_chunk_index(w, x, y))
        c == convert_coords(w, x, y, z)
    IN  IF chunk.some THEN Some(ArcChunkGetBlock(heap, chunk.val, c[1], c[2], c[3]))
        ELSE None
arc_get_block_defaulting(heap, w, x, y, z) ==
    unwrap_or(arc_get_block_at(heap, w, x, y, z), w.default_block)
arc_set_block_defaulting(heap, w, x, y, z, block) ==
    LET index == get_chunk_index(w, x, y)
        c == convert_coords(w, x, y, z)
        empty_chunk == ArcChunkNew(heap, w.default_block.block)
        old_chunk == unwrap_or(MapGet(w.chunks, index), empty_chunk.chunk)
        new_chunk == ArcChunkSetBlock(empty_chunk.heap, old_chunk, c[1], c[2], c[3], block)
    IN  [heap |-> new_chunk.heap,
         world |-> [w EXCEPT !.chunks = MapInsert(w.chunks, index, new_chunk.chunk)]]

\* -------------------------------------------------------------- run_history
SeqContains(s, v) == \E i \in 1..Len(s) : s[i] = v
get_id(t) == t.id
\* One step of the replay fold.
apply_to_block_unconditional(block, t) ==
    LET transaction_type == t.transaction.transaction_type
    IN  CASE transaction_type.kind = "Set" -> transaction_type.block_set
          [] transaction_type.kind = "Replace" -> transaction_type.block_set
          [] OTHER -> block
apply_to_block(block, t) ==
    LET transaction_type == t.transaction.transaction_type
    IN  CASE transaction_type.kind = "Set" -> transaction_type.block_set
          [] transaction_type.kind = "Replace" ->
                IF block = transaction_type.block_current
                THEN transaction_type.block_set ELSE block
          [] OTHER -> block
RECURSIVE FoldBlocks(_, _)
FoldBlocks(block, s) ==
    IF s = <<>> THEN block ELSE FoldBlocks(apply_to_block(block, Head(s)), Tail(s))
\* The three filters of run_history: what is left to be folded.
final_history(history) ==
    LET NotUndo(x) == ~is_undo(x)
        new_history == SelectSeq(history, NotUndo)
        only_undos == SelectSeq(history, is_undo)
        undos == [i \in 1..Len(only_undos) |-> get_id(only_undos[i])]
        NotUndone(x) == ~SeqContains(undos, get_id(x))
    IN  SelectSeq(new_history, NotUndone)
run_history(history, default_blk) == FoldBlocks(default_blk, final_history(history))

\* ---------------------------------------------------------------- WorldLine
WorldLineNew == [transactions |-> EmptyMap]
\* The keys of an OrdSet/OrdMap in ascending order.
RECURSIVE Ascending(_)
Ascending(S) ==
    IF S = {} THEN <<>>
    ELSE LET m == CHOOSE a \in S : \A b \in S : cmp(a, b) <= 0
         IN  <<m>> \o Ascending(S \ {m})
get_max(wl) ==
    IF DOMAIN wl.transactions = {} THEN None
    ELSE Some(CHOOSE a \in DOMAIN wl.transactions :
                 \A b \in DOMAIN wl.transactions : cmp(a, b) >= 0)
next_id(wl) ==
    LET last_transaction == get_max(wl)
    IN  IF last_transaction.some THEN increment_major(last_transaction.val) ELSE new_id
add_transaction_unassigned(wl, transaction) ==
    [line |-> wl, transaction |-> Transaction(transaction, next_id(wl))]
add_transaction(wl, transaction) ==
    LET id == next_id(wl)
        new_transaction == Transaction(transaction, id)
    IN  [line |-> [wl EXCEPT !.transactions = MapInsert(wl.transactions, id, new_transaction)],
         transaction |-> new_transaction]
lookup_transaction(wl, transaction_id) == MapGet(wl.transactions, transaction_id)
RECURSIVE FirstUndoOf(_, _, _)
FirstUndoOf(wl, keys, transaction_id) ==
    IF keys = <<>> THEN None
    ELSE LET v == wl.transactions[Head(keys)]
             tt == v.transaction.transaction_type
         IN  IF tt.kind = "Undo" /\ tt.transaction = transaction_id
             THEN Some(tt.transaction)
             ELSE FirstUndoOf(wl, Tail(keys), transaction_id)
get_undo(wl, transaction_id) ==
    FirstUndoOf(wl, Ascending(DOMAIN wl.transactions), transaction_id)
get_transactions_for_block(wl, coords) ==
    {k \in DOMAIN wl.transactions : wl.transactions[k].transaction.coords = Some(coords)}
\* The recursion of get_undone_block, with the ids it has gone through. A
\* chain that comes back to an id already gone through never ends in the code
\* (the stack overflows and the call dies); it yields None here, whose unwrap
\* by the caller kills the call as well.
RECURSIVE undone_block_of(_, _, _)
undone_block_of(wl, transaction, seen) ==
    LET t == lookup_transaction(wl, transaction)
    IN  IF transaction \in seen
        THEN None
        ELSE IF t.some
        THEN IF t.val.transaction.transaction_type.kind = "Undo"
             THEN undone_block_of(wl, t.val.transaction.transaction_type.transaction,
                                  seen \cup {transaction})
             ELSE t.val.transaction.coords
        ELSE None
get_undone_block_one_link(wl, transaction) ==
    LET t == lookup_transaction(wl, transaction)
    IN  IF t.some
        THEN IF t.val.transaction.transaction_type.kind = "Undo"
             THEN LET u == lookup_transaction(wl, t.val.transaction.transaction_type.transaction)
                  IN  IF u.some THEN u.val.transaction.coords ELSE None
             ELSE t.val.transaction.coords
        ELSE None
get_undone_block(wl, transaction) == undone_block_of(wl, transaction, {})
\* The tail of WorldLine::get_block_history: the set's transactions, ascending.
history_output(wl, set) ==
    LET ids == Ascending(set) IN [i \in 1..Len(ids) |-> wl.transactions[ids[i]]]
\* The body of Rewind::get_block_history once the transactions are known.
SubSeqTake(s, n) == [i \in 1..n |-> s[i]]
block_history_pairs(transactions, default_blk) ==
    [i \in 1..Len(transactions) |->
        <<run_history(SubSeqTake(transactions, i - 1), default_blk), transactions[i]>>]

\* ------------------------------------------------------------------ callers
Procs == {1, 2}
\* The RawTransactions callers submit: what RawTransactionBuilder builds for a
\* Set or a Replace with all three coordinates, and for an Undo with none.
UndoTargets == {TransactionID(i, 0) : i \in 0..(MaxLog - 1)}
RawInputs ==
    {RawTransaction(new_set(b), Some(c)) : b \in SetBlocks, c \in Coords}
    \cup {RawTransaction(new_replace(b[1], b[2]), Some(c)) :
            b \in {bb \in BlockStates \X SetBlocks : bb[1] # bb[2]}, c \in Coords}
    \cup {RawTransaction(new_undo(t), None) : t \in UndoTargets}

\* The undo scenarios: Set(A), Set(B) and Replace(A -> B) at one block, and Undos.
BlockA == Water
BlockB == Stone
TheBlock == <<1, 0, 0>>
UndoScenarioTargets == {TransactionID(i, 0) : i \in 0..(MaxUndoLog - 2)}
UndoInputs ==
    {RawTransaction(new_set(b), Some(TheBlock)) : b \in {BlockA, BlockB}}
    \cup {RawTransaction(new_replace(BlockA, BlockB), Some(TheBlock))}
    \cup {RawTransaction(new_undo(t), None) : t \in UndoScenarioTargets}

\* ------------------------------------------------------------------- state
VARIABLES
    world_line,     \* Rewind.world_line: the WorldLine behind its RwLock
    world,          \* Rewind.world: the World behind its RwLock
    default_block,  \* Rewind.default_block
    world_lock,     \* the RwLock of world
    line_lock,      \* the RwLock of world_line
    pc,             \* where each caller is
    arg,            \* the argument of each caller's call
    ret,            \* what each caller's call returned
    hist,           \* locals of a running WorldLine::get_block_history
    commits,        \* number of apply_transaction calls that returned Some
    arcs,           \* the values behind the Arcs allocated by the Purses
    held,           \* the storage values a direct user of data:: and storage:: holds
    op              \* that user's last call: its arguments and what it returned

rewind_vars == <<world_line, world, default_block, world_lock, line_lock, pc, arg, ret, hist,
                 commits>>
client_vars == <<arcs, held, op>>
vars == <<rewind_vars, client_vars>>

FreeLock == [writer |-> 0, readers |-> {}, poisoned |-> FALSE]
NoHist == [set |-> {}, todo |-> <<>>, walk |-> <<>>, transaction |-> None,
           pushed |-> FALSE, final_trans |-> None, coords |-> None]
NoArg == None
NoRet == [kind |-> "none"]
RetApply(opt) == [kind |-> "apply", value |-> opt]
RetWorld(w) == [kind |-> "world", value |-> w]
RetHistory(pairs) == [kind |-> "history", value |-> pairs]

NoHeld == [n |-> 0]
NoOp == [name |-> "none"]

InitRewind ==
    /\ default_block \in DefaultBlocks
    /\ world_line = WorldLineNew
    /\ world = WorldNew(default_block)
    /\ world_lock = FreeLock
    /\ line_lock = FreeLock
    /\ pc = [p \in Procs |-> "idle"]
    /\ arg = [p \in Procs |-> NoArg]
    /\ ret = [p \in Procs |-> NoRet]
    /\ hist = [p \in Procs |-> NoHist]
    /\ commits = 0
Init ==
    /\ InitRewind
    /\ arcs = <<>>
    /\ held = NoHeld
    /\ op = NoOp

\* ------------------------------------------------------------------- locks
can_write(lock) == lock.writer = 0 /\ lock.readers = {}
can_read_unguarded(lock) == TRUE
can_read(lock) == lock.writer = 0
write_locked(lock, p) == [lock EXCEPT !.writer = p]
read_locked(lock, p) == [lock EXCEPT !.readers = @ \cup {p}]
write_released_leaked(lock) == lock
write_released(lock) == [lock EXCEPT !.writer = 0]
read_released(lock, p) == [lock EXCEPT !.readers = @ \ {p}]
\* A guard dropped by a panicking thread poisons its lock.
write_poisoned(lock) == [lock EXCEPT !.writer = 0, !.poisoned = TRUE]

LogLen == Cardinality(DOMAIN world_line.transactions)
Pending == {q \in Procs : pc[q] \in {"apply_world", "apply_line", "apply_body"}}
Range(s) == {s[i] : i \in 1..Len(s)}

\* ------------------------------------------------- Rewind::apply_transaction
CallApply(p, t, cap) ==
    /\ pc[p] = "idle"
    /\ LogLen + Cardinality(Pending) < cap
    /\ pc' = [pc EXCEPT ![p] = "apply_world"]
    /\ arg' = [arg EXCEPT ![p] = t]
    /\ UNCHANGED <<world_line, world, default_block, world_lock, line_lock, ret, hist,
                   commits>>
    /\ UNCHANGED client_vars

\* self.world.write().unwrap()
AcquireWorldWrite(p) ==
    /\ pc[p] = "apply_world"
    /\ can_write(world_lock)
    /\ IF world_lock.poisoned
       THEN /\ pc' = [pc EXCEPT ![p] = "panicked"]
            /\ UNCHANGED world_lock
       ELSE /\ pc' = [pc EXCEPT ![p] = "apply_line"]
            /\ world_lock' = write_locked(world_lock, p)
    /\ UNCHANGED <<world_line, world, default_block, line_lock, arg, ret, hist, commits>>
    /\ UNCHANGED client_vars

\* self.world_line.write().unwrap()
AcquireLineWrite(p) ==
    /\ pc[p] = "apply_line"
    /\ can_write(line_lock)
    /\ IF line_lock.poisoned
       THEN /\ pc' = [pc EXCEPT ![p] = "panicked"]
            /\ world_lock' = write_poisoned(world_lock)
            /\ UNCHANGED line_lock
       ELSE /\ pc' = [pc EXCEPT ![p] = "apply_body"]
            /\ line_lock' = write_locked(line_lock, p)
            /\ UNCHANGED world_lock
    /\ UNCHANGED <<world_line, world, default_block, arg, ret, hist, commits>>
    /\ UNCHANGED client_vars

\* The test of the Replace arm.
replace_matches_unchecked(old_block, block_current) == TRUE
replace_matches(old_block, block_current) == old_block = block_current
\* The test of the Undo arm.
target_exists_unchecked(wl, tid) == TRUE
target_exists(wl, tid) == lookup_transaction(wl, tid).some

\* The Set and Replace arms: the World and WorldLine they leave, and the result.
write_and_log_stale(w, wl, t, block_set) ==
    [world |-> w,
     line |-> add_transaction(wl, t).line,
     ret |-> Some(add_transaction(wl, t).transaction)]
write_and_log(w, wl, t, block_set) ==
    [world |-> set_block_defaulting(w, t.coords.val[1], t.coords.val[2], t.coords.val[3],
                                    block_set),
     line |-> add_transaction(wl, t).line,
     ret |-> Some(add_transaction(wl, t).transaction)]
rejected(w, wl) == [world |-> w, line |-> wl, ret |-> None]
set_arm(w, wl, t) ==
    IF t.coords.some THEN write_and_log(w, wl, t, t.transaction_type.block_set)
    ELSE rejected(w, wl)
replace_arm(w, wl, t) ==
    IF t.coords.some
    THEN LET old_block == get_block_defaulting(w, t.coords.val[1], t.coords.val[2],
                                               t.coords.val[3])
         IN  IF replace_matches(old_block, t.transaction_type.block_current)
             THEN write_and_log(w, wl, t, t.transaction_type.block_set)
             ELSE rejected(w, wl)
    ELSE rejected(w, wl)

\* The end of a call that holds both write locks: both guards are dropped.
Finish(p, out) ==
    /\ world' = out.world
    /\ world_line' = out.line
    /\ ret' = [ret EXCEPT ![p] = RetApply(out.ret)]
    /\ commits' = IF out.ret.some THEN commits + 1 ELSE commits
    /\ world_lock' = write_released(world_lock)
    /\ line_lock' = write_released(line_lock)
    /\ pc' = [pc EXCEPT ![p] = "done"]

\* A Set or Replace arm whose coordinates make convert_coords overflow, in a
\* build with overflow checks: the thread panics before anything is written,
\* and both guards are dropped while panicking. Without the checks the arm
\* goes on as for any other coordinate, so both outcomes exist.
coords_overflow(t) ==
    /\ t.coords.some
    /\ convert_coords_overflows(t.coords.val[1], t.coords.val[2], t.coords.val[3])
PanicInArm(p) ==
    /\ pc' = [pc EXCEPT ![p] = "panicked"]
    /\ world_lock' = write_poisoned(world_lock)
    /\ line_lock' = write_poisoned(line_lock)
    /\ UNCHANGED <<world, world_line, ret, commits, hist>>

\* The first walk of WorldLine::get_block_history(x, y, z) is about to start.
history_begin(wl, coords, final_trans) ==
    [set |-> get_transactions_for_block(wl, coords),
     todo |-> Ascending(get_transactions_for_block(wl, coords)),
     walk |-> <<>>, transaction |-> None, pushed |-> FALSE,
     final_trans |-> final_trans, coords |-> Some(coords)]

\* The match on the transaction type, up to the return of a Set, a Replace or
\* a rejected Undo, and up to the call of get_block_history of an accepted Undo.
ApplyBody(p) ==
    /\ pc[p] = "apply_body"
    /\ LET t == arg[p]
           kind == t.transaction_type.kind
       IN  CASE kind = "Set" ->
                  \/ /\ Finish(p, set_arm(world, world_line, t))
                     /\ UNCHANGED hist
                  \/ /\ coords_overflow(t)
                     /\ PanicInArm(p)
             [] kind = "Replace" ->
                  \/ /\ Finish(p, replace_arm(world, world_line, t))
                     /\ UNCHANGED hist
                  \/ /\ coords_overflow(t)
                     /\ PanicInArm(p)
             [] kind = "Undo" ->
                  LET tid == t.transaction_type.transaction
                      added == add_transaction(world_line, t)
                      block == get_undone_block(added.line, tid)
                  IN  IF target_exists(world_line, tid)
                      THEN /\ world_line' = added.line
                           /\ IF block.some
                              THEN /\ hist' = [hist EXCEPT ![p] =
                                         history_begin(added.line, block.val,
                                                       Some(added.transaction))]
                                   /\ pc' = [pc EXCEPT ![p] = "undo_history"]
                                   /\ UNCHANGED <<world_lock, line_lock>>
                              ELSE \* unwrap of None: the thread panics
                                   /\ pc' = [pc EXCEPT ![p] = "panicked"]
                                   /\ world_lock' = write_poisoned(world_lock)
                                   /\ line_lock' = write_poisoned(line_lock)
                                   /\ UNCHANGED hist
                           /\ UNCHANGED <<world, ret, commits>>
                      ELSE /\ Finish(p, rejected(world, world_line))
                           /\ UNCHANGED hist
    /\ UNCHANGED <<default_block, arg>>
    /\ UNCHANGED client_vars

\* --------------------------------------------------- Rewind::get_world_state
CallGetWorldState(p) ==
    /\ pc[p] = "idle"
    /\ pc' = [pc EXCEPT ![p] = "gws_lock"]
    /\ UNCHANGED <<world_line, world, default_block, world_lock, line_lock, arg, ret, hist,
                   commits>>
    /\ UNCHANGED client_vars

\* self.world.read().unwrap()
AcquireWorldRead(p) ==
    /\ pc[p] = "gws_lock"
    /\ can_read(world_lock)
    /\ IF world_lock.poisoned
       THEN /\ pc' = [pc EXCEPT ![p] = "panicked"]
            /\ UNCHANGED world_lock
       ELSE /\ pc' = [pc EXCEPT ![p] = "gws_read"]
            /\ world_lock' = read_locked(world_lock, p)
    /\ UNCHANGED <<world_line, world, default_block, line_lock, arg, ret, hist, commits>>
    /\ UNCHANGED client_vars

\* (*world).clone(), then the guard is dropped
CloneWorld(p) ==
    /\ pc[p] = "gws_read"
    /\ ret' = [ret EXCEPT ![p] = RetWorld(world)]
    /\ world_lock' = read_released(world_lock, p)
    /\ pc' = [pc EXCEPT ![p] = "done"]
    /\ UNCHANGED <<world_line, world, default_block, line_lock, arg, hist, commits>>
    /\ UNCHANGED client_vars

\* ------------------------------------------------- Rewind::get_block_history
CallGetBlockHistory(p, c) ==
    /\ pc[p] = "idle"
    /\ pc' = [pc EXCEPT ![p] = "gbh_lock"]
    /\ arg' = [arg EXCEPT ![p] = Some(c)]
    /\ UNCHANGED <<world_line, world, default_block, world_lock, line_lock, ret, hist,
                   commits>>
    /\ UNCHANGED client_vars

\* self.world_line.read().unwrap(), and the call of WorldLine::get_block_history
AcquireLineRead(p) ==
    /\ pc[p] = "gbh_lock"
    /\ can_read(line_lock)
    /\ IF line_lock.poisoned
       THEN /\ pc' = [pc EXCEPT ![p] = "panicked"]
            /\ UNCHANGED <<line_lock, hist>>
       ELSE /\ pc' = [pc EXCEPT ![p] = "gbh_history"]
            /\ line_lock' = read_locked(line_lock, p)
            /\ hist' = [hist EXCEPT ![p] = history_begin(world_line, arg[p].val, None)]
    /\ UNCHANGED <<world_line, world, default_block, world_lock, arg, ret, commits>>
    /\ UNCHANGED client_vars

\* ------------------------------------------- WorldLine::get_block_history
\* One step of the loops of get_block_history and get_undo_history:
\*   - inside get_undo_history: push t, or transaction = get_undo(t);
\*   - between two walks: insert the walk into the set, start the next walk;
\*   - after the last walk: look the set up, then the rest of the caller.
HistoryStep(p) ==
    /\ pc[p] \in {"undo_history", "gbh_history"}
    /\ LET h == hist[p]
           set == h.set \cup Range(h.walk)
       IN  IF h.transaction.some
           THEN /\ hist' = [hist EXCEPT ![p] =
                       IF ~h.pushed
                       THEN \* history.push(t); only the first MaxWalk entries are kept
                            [h EXCEPT !.walk = IF Len(@) < MaxWalk
                                               THEN Append(@, h.transaction.val) ELSE @,
                                      !.pushed = TRUE]
                       ELSE \* transaction = self.get_undo(t)
                            [h EXCEPT !.transaction = get_undo(world_line, h.transaction.val),
                                      !.pushed = FALSE]]
                /\ UNCHANGED <<world_line, world, world_lock, line_lock, pc, ret, commits>>
           ELSE IF h.todo # <<>>
           THEN /\ hist' = [hist EXCEPT ![p] =
                       [h EXCEPT !.set = set, !.walk = <<>>,
                                 !.transaction = Some(Head(h.todo)),
                                 !.todo = Tail(h.todo)]]
                /\ UNCHANGED <<world_line, world, world_lock, line_lock, pc, ret, commits>>
           ELSE LET transactions == history_output(world_line, set)
                IN  /\ hist' = [hist EXCEPT ![p] = NoHist]
                    /\ IF pc[p] = "gbh_history"
                       THEN \* Rewind::get_block_history, lines 119-127
                            /\ ret' = [ret EXCEPT ![p] = RetHistory(
                                   block_history_pairs(transactions, default_block))]
                            /\ line_lock' = read_released(line_lock, p)
                            /\ pc' = [pc EXCEPT ![p] = "done"]
                            /\ UNCHANGED <<world_line, world, world_lock, commits>>
                       ELSE \* the Undo arm of apply_transaction, lines 95-99
                            LET new_block == run_history(transactions, default_block)
                                c == h.coords.val
                            IN  Finish(p, [world |-> set_block_defaulting(
                                                        world, c[1], c[2], c[3], new_block),
                                           line |-> world_line,
                                           ret |-> h.final_trans])
    /\ UNCHANGED <<default_block, arg>>
    /\ UNCHANGED client_vars

\* The caller takes its result and is free to call again.
Return(p) ==
    /\ pc[p] = "done"
    /\ pc' = [pc EXCEPT ![p] = "idle"]
    /\ arg' = [arg EXCEPT ![p] = NoArg]
    /\ ret' = [ret EXCEPT ![p] = NoRet]
    /\ UNCHANGED <<world_line, world, default_block, world_lock, line_lock, hist, commits>>
    /\ UNCHANGED client_vars

\* ------------------------------------------------------------ specification
Step(p) ==
    \/ AcquireWorldWrite(p)
    \/ AcquireLineWrite(p)
    \/ ApplyBody(p)
    \/ AcquireWorldRead(p)
    \/ CloneWorld(p)
    \/ AcquireLineRead(p)
    \/ HistoryStep(p)
    \/ Return(p)

Call(p) ==
    \/ \E t \in RawInputs : CallApply(p, t, MaxLog)
    \/ CallGetWorldState(p)
    \/ \E c \in Coords : CallGetBlockHistory(p, c)

Next == \E p \in Procs : Call(p) \/ Step(p)

Spec == Init /\ [][Next]_vars

\* The same callers restricted to the undo scenarios: two Sets of one block
\* and Undos, with room for a longer log.  A thread that can take a step
\* eventually takes one; nothing obliges a caller to call.
CallUndo(p) ==
    \/ \E t \in UndoInputs : CallApply(p, t, MaxUndoLog)
    \/ CallGetWorldState(p)
    \/ CallGetBlockHistory(p, TheBlock)

NextUndo == \E p \in Procs : CallUndo(p) \/ Step(p)

UndoSpec == Init /\ [][NextUndo]_vars /\ \A p \in Procs : WF_vars(Step(p))

\* Callers that build their transactions with RawTransactionBuilder, setting
\* any of the three coordinates, the least i32 among the values of x.
MaxBuiltLog == 2
Builders ==
    {RawTransactionBuilder(tt, x, y, z) :
        tt \in {new_set(Water), new_replace(Stone, Water), new_undo(TransactionID(0, 0))},
        x \in {None, Some(1), Some(I32_MIN)}, y \in {None, Some(0)}, z \in {None, Some(0)}}
BuiltInputs == {build_transaction(b).val : b \in {bb \in Builders : build_transaction(bb).some}}
BuiltCoords == {<<1, 0, 0>>, <<I32_MIN, 0, 0>>}
CallBuilt(p) ==
    \/ \E t \in BuiltInputs : CallApply(p, t, MaxBuiltLog)
    \/ CallGetWorldState(p)
    \/ \E c \in BuiltCoords : CallGetBlockHistory(p, c)

NextBuilt == \E p \in Procs : CallBuilt(p) \/ Step(p)

BuilderSpec == Init /\ [][NextBuilt]_vars

\* ------------------------------------------------ direct use of the storage
\* A user of data:: and storage:: who holds a Cuboid of side Side, a World (as
\* Rewind holds one) and at most one clone of it (as get_world_state returns
\* one), writes to them and clones the World.
CuboidDefault == [slot |-> "default"]
CuboidValues == {[slot |-> "a"], [slot |-> "b"]}
GridCoords == {<<1, 0, 0>>, <<-1, 0, 0>>, <<1, 0, 1>>, <<1, 0, -1>>}
InitStorage ==
    /\ InitRewind
    /\ LET made == ArcCuboidNew(<<>>, Side, Side, Side, CuboidDefault)
       IN  /\ arcs = made.heap
           /\ held = [n |-> 0, cuboid |-> made.cuboid,
                      grid |-> WorldNew(default_block), snapshot |-> None]
    /\ op = NoOp

\* self.set(x, y, z, value) on the Cuboid held; a Some result replaces it
SetCuboid(x, y, z, value) ==
    /\ held.n < MaxOps
    /\ LET res == ArcCuboidSet(arcs, held.cuboid, x, y, z, value)
       IN  /\ arcs' = res.heap
           /\ held' = [held EXCEPT !.n = @ + 1,
                                   !.cuboid = unwrap_or(res.value, @)]
           /\ op' = [name |-> "Cuboid::set", self |-> held.cuboid,
                     x |-> x, y |-> y, z |-> z, value |-> value,
                     old |-> ArcCuboidGet(arcs, held.cuboid, x, y, z), result |-> res.value]
    /\ UNCHANGED rewind_vars

\* *world = world.set_block_defaulting(x, y, z, block)
SetGridBlock(c, block) ==
    /\ held.n < MaxOps
    /\ LET res == arc_set_block_defaulting(arcs, held.grid, c[1], c[2], c[3], block)
       IN  /\ arcs' = res.heap
           /\ held' = [held EXCEPT !.n = @ + 1, !.grid = res.world]
           /\ op' = [name |-> "World::set_block_defaulting", self |-> held.grid,
                     coords |-> c, block |-> block]
    /\ UNCHANGED rewind_vars

\* (*world).clone()
CloneGrid ==
    /\ held.snapshot # Some(held.grid)
    /\ held' = [held EXCEPT !.snapshot = Some(held.grid)]
    /\ op' = [name |-> "World::clone", self |-> held.grid]
    /\ UNCHANGED <<arcs, rewind_vars>>

NextStorage ==
    \/ \E x \in 0..Side : \E y \in {0, Side} : \E z \in 0..Side : \E v \in CuboidValues :
          SetCuboid(x, y, z, v)
    \/ \E c \in GridCoords : \E b \in SetBlocks : SetGridBlock(c, b)
    \/ CloneGrid

StorageSpec == InitStorage /\ [][NextStorage]_vars

\* ------------------------------------------------------ replay of a slice
\* run_history on the history of one block: at most MaxHistory transactions
\* with ascending ids, each a Set, a Replace or an Undo of an earlier one.
MaxHistory == 3
HistoryTypes(n) ==
    {new_set(b) : b \in SetBlocks}
    \cup {new_replace(Stone, Water), new_replace(Water, Stone)}
    \cup {new_undo(TransactionID(i, 0)) : i \in 0..(n - 2)}
HistoryEntry(tt, n) ==
    Transaction(RawTransaction(tt, IF tt.kind = "Undo" THEN None ELSE Some(TheBlock)),
                TransactionID(n - 1, 0))
RECURSIVE Histories(_)
Histories(n) ==
    IF n = 0 THEN {<<>>}
    ELSE Histories(n - 1)
         \cup {Append(h, HistoryEntry(tt, n)) :
                 h \in {hh \in Histories(n - 1) : Len(hh) = n - 1}, tt \in HistoryTypes(n)}
InitReplay ==
    /\ InitRewind
    /\ arcs = <<>>
    /\ held = NoHeld
    /\ op \in {[name |-> "history", history |-> h] : h \in Histories(MaxHistory)}

Replay ==
    /\ op.name = "history"
    /\ op' = [name |-> "run_history", history |-> op.history,
              result |-> run_history(op.history, default_block)]
    /\ UNCHANGED <<arcs, held, rewind_vars>>

NextReplay == Replay

ReplaySpec == InitReplay /\ [][NextReplay]_vars

\* --------------------------------------------------- two racing Replaces
\* Two callers on a new Rewind, each of whom calls apply_transaction once with
\* a Replace and keeps the result.
MaxRace == 2
ReplaceInputs ==
    {RawTransaction(new_replace(b[1], b[2]), Some(c)) :
        b \in {bb \in BlockStates \X SetBlocks : bb[1] # bb[2]}, c \in Coords}
StepRace(p) ==
    \/ \E t \in ReplaceInputs : CallApply(p, t, MaxRace)
    \/ AcquireWorldWrite(p)
    \/ AcquireLineWrite(p)
    \/ ApplyBody(p)

NextRace == \E p \in Procs : StepRace(p)

RaceSpec == Init /\ [][NextRace]_vars

\* ------------------------------------------------------ the log by itself
\* The WorldLine as the arms of apply_transaction grow it, leaving the rest of
\* each arm out: a Set or a Replace with a coordinate is appended, an Undo is
\* appended when its target is in the log.
MaxChain == 3
LogInputs ==
    {RawTransaction(new_set(Water), Some(c)) : c \in Coords}
    \cup {RawTransaction(new_replace(Stone, Water), Some(TheBlock))}
    \cup {RawTransaction(new_undo(TransactionID(i, 0)), None) : i \in 0..(MaxChain - 1)}
AddToLog(t) ==
    /\ LogLen < MaxChain
    /\ t.transaction_type.kind = "Undo" => target_exists(world_line, t.transaction_type.transaction)
    /\ world_line' = add_transaction(world_line, t).line
    /\ op' = [name |-> "WorldLine::add_transaction", transaction |-> t]
    /\ UNCHANGED <<world, default_block, world_lock, line_lock, pc, arg, ret, hist, commits,
                   arcs, held>>

NextLog == \E t \in LogInputs : AddToLog(t)

LogSpec == Init /\ [][NextLog]_vars

\* ------------------------------------------------ the index of a chunk
\* World::get_chunk_index on a new World, for coordinates on both sides of
\* zero and of a chunk's edge.
AxisValues ==
    {-CHUNK_SIZE - 1, -CHUNK_SIZE, -CHUNK_SIZE + 1, -5, -1, 0, 1, 5,
     CHUNK_SIZE - 1, CHUNK_SIZE, CHUNK_SIZE + 1}
InitIndex ==
    /\ InitRewind
    /\ arcs = <<>>
    /\ held = NoHeld
    /\ op \in {[name |-> "coords", x |-> x, y |-> y] : x \in AxisValues, y \in AxisValues}

ChunkIndex ==
    /\ op.name = "coords"
    /\ op' = [name |-> "World::get_chunk_index", x |-> op.x, y |-> op.y,
              index |-> get_chunk_index(world, op.x, op.y)]
    /\ UNCHANGED <<arcs, held, rewind_vars>>

NextIndex == ChunkIndex

IndexSpec == InitIndex /\ [][NextIndex]_vars

\* ------------------------------------------------- use of an ArrayMatrix
\* An ArrayMatrix of any width and height up to MaxWidth, new at first, set
\* at in-range coordinates; indexing the Purse past its end panics.
MaxWidth == 3
InitMatrix ==
    /\ InitRewind
    /\ op = NoOp
    /\ \E x_size \in 1..MaxWidth : \E y_size \in 1..MaxWidth :
          LET made == ArrayMatrixNew(<<>>, x_size, y_size)
          IN  /\ arcs = made.heap
              /\ held = [n |-> 0, matrix |-> made.matrix]

SetArrayMatrix(x, y, data) ==
    /\ held.n < MaxOps
    /\ x < held.matrix.x_size
    /\ y < held.matrix.y_size
    /\ IF ArrayMatrixSlot(held.matrix, x, y) < PurseLen(held.matrix.data)
       THEN LET res == ArrayMatrixSet(arcs, held.matrix, x, y, data)
            IN  /\ arcs' = res.heap
                /\ held' = [held EXCEPT !.n = @ + 1, !.matrix = res.matrix]
                /\ op' = [name |-> "ArrayMatrix::set", self |-> held.matrix,
                          x |-> x, y |-> y, data |-> data]
       ELSE /\ held' = [held EXCEPT !.n = MaxOps]
            /\ op' = [name |-> "panic", self |-> held.matrix, x |-> x, y |-> y]
            /\ UNCHANGED arcs
    /\ UNCHANGED rewind_vars

NextMatrix ==
    \E x \in 0..(MaxWidth - 1) : \E y \in 0..(MaxWidth - 1) : \E v \in CuboidValues :
        SetArrayMatrix(x, y, v)

MatrixSpec == InitMatrix /\ [][NextMatrix]_vars

\* ------------------------------------------------- direct use of a Purse
\* A user of storage::purse who holds one Purse, empty at first, and calls
\* push and set on it, keeping the result; a set past the end panics.
MaxPurseOps == 4
InitPurse ==
    /\ InitRewind
    /\ arcs = <<>>
    /\ held = [n |-> 0, purse |-> PurseNew]
    /\ op = NoOp

reads_through(heap, purse) == [i \in DOMAIN purse |-> PurseIndex(heap, purse, i)]

\* self.push(element)
PushPurse(element) ==
    /\ held.n < MaxPurseOps
    /\ LET res == PursePush(arcs, held.purse, element)
       IN  /\ arcs' = res.heap
           /\ held' = [held EXCEPT !.n = @ + 1, !.purse = res.purse]
           /\ op' = [name |-> "Purse::push", self |-> held.purse, element |-> element,
                     old |-> reads_through(arcs, held.purse), result |-> res.purse]
    /\ UNCHANGED rewind_vars

\* self.set(index, element); new_purse.contents[index] panics past the end
SetPurse(index, element) ==
    /\ held.n < MaxPurseOps
    /\ IF index < PurseLen(held.purse)
       THEN LET res == PurseSet(arcs, held.purse, index, element)
            IN  /\ arcs' = res.heap
                /\ held' = [held EXCEPT !.n = @ + 1, !.purse = res.purse]
                /\ op' = [name |-> "Purse::set", self |-> held.purse, index |-> index,
                          element |-> element, old |-> reads_through(arcs, held.purse),
                          result |-> res.purse]
       ELSE /\ held' = [held EXCEPT !.n = MaxPurseOps]
            /\ op' = [name |-> "panic", self |-> held.purse, index |-> index]
            /\ UNCHANGED arcs
    /\ UNCHANGED rewind_vars

NextPurse ==
    \/ \E v \in CuboidValues : PushPurse(v)
    \/ \E i \in 0..MaxPurseOps : \E v \in CuboidValues : SetPurse(i, v)

PurseSpec == InitPurse /\ [][NextPurse]_vars

\* --------------------------------------------------- comparisons of ids
\* A user who holds three TransactionIDs whose parts are at most MaxPart and
\* compares them.
MaxPart == 2
Ids == {TransactionID(i, j) : i \in 0..MaxPart, j \in 0..MaxPart}
InitOrder ==
    /\ InitRewind
    /\ arcs = <<>>
    /\ held = NoHeld
    /\ op \in {[name |-> "ids", a |-> a, b |-> b, c |-> c] : a \in Ids, b \in Ids, c \in Ids}

Compare ==
    /\ op.name = "ids"
    /\ op' = [name |-> "TransactionID::cmp", a |-> op.a, b |-> op.b, c |-> op.c,
              ab |-> cmp(op.a, op.b), ba |-> cmp(op.b, op.a),
              bc |-> cmp(op.b, op.c), ac |-> cmp(op.a, op.c)]
    /\ UNCHANGED <<arcs, held, rewind_vars>>

NextOrder == Compare

OrderSpec == InitOrder /\ [][NextOrder]_vars

\* ------------------------------------------------------------------ claims
holds_write_locks(p) == pc[p] \in {"apply_body", "undo_history"}

\* C2: every apply_transaction call terminates and releases both locks: a
\* caller that holds the two write locks eventually returns, and then holds
\* neither lock.
EveryApplyReturns ==
    \A p \in Procs :
        holds_write_locks(p) ~>
            (pc[p] = "done" /\ world_lock.writer # p /\ line_lock.writer # p)

kind_of(p) == arg[p].transaction_type.kind
block_at(w, c) == get_block_defaulting(w, c[1], c[2], c[3])
log == world_line.transactions

\* The state of c after the committed Sets and Replaces at c, in ascending id
\* order from the default state, with transaction tid left out.
replay_without(c, tid) ==
    FoldBlocks(default_block,
               history_output(world_line,
                   {k \in DOMAIN log : /\ ~is_undo(log[k])
                                       /\ log[k].transaction.coords = Some(c)
                                       /\ k # tid}))
\* p's Undo has committed and the block its target wrote reads as if the
\* target had never been applied.
undo_done(p) ==
    /\ pc[p] = "done"
    /\ ret[p].kind = "apply"
    /\ ret[p].value.some
    /\ kind_of(p) = "Undo"
    /\ LET tid == arg[p].transaction_type.transaction
           c == log[tid].transaction.coords.val
       IN  block_at(world, c) = replay_without(c, tid)

\* C1: once apply_transaction has accepted an Undo of a committed Set or
\* Replace t at c, the call commits and the live state at c is the replay of
\* the Sets and Replaces at c without t.
UndoRestoresReplayWithoutTarget ==
    \A p \in Procs : (pc[p] = "undo_history") ~> undo_done(p)

\* C8: a second Undo of a transaction that the log already holds an Undo of
\* commits too, and leaves the state that one Undo leaves.
second_undo_pending(p) ==
    /\ pc[p] = "apply_world"
    /\ kind_of(p) = "Undo"
    /\ \E k \in DOMAIN log :
          /\ is_undo(log[k])
          /\ log[k].transaction.transaction_type.transaction
                = arg[p].transaction_type.transaction
SecondUndoLeavesSameState ==
    \A p \in Procs : second_undo_pending(p) ~> undo_done(p)

\* C9: for Set(A), Set(B), Undo(Set B) at c, get_block_history(c) returns
\* (default, txn(0,0)), (A, txn(1,0)), (A, txn(2,0)).
scenario_b_log ==
    /\ DOMAIN log = {TransactionID(0, 0), TransactionID(1, 0), TransactionID(2, 0)}
    /\ log[TransactionID(0, 0)].transaction = RawTransaction(new_set(BlockA), Some(TheBlock))
    /\ log[TransactionID(1, 0)].transaction = RawTransaction(new_set(BlockB), Some(TheBlock))
    /\ log[TransactionID(2, 0)].transaction =
          RawTransaction(new_undo(TransactionID(1, 0)), None)
scenario_b_history ==
    << <<default_block, log[TransactionID(0, 0)]>>,
       <<BlockA, log[TransactionID(1, 0)]>>,
       <<BlockA, log[TransactionID(2, 0)]>> >>
HistoryOfScenarioB ==
    \A p \in Procs :
        (pc[p] = "gbh_lock" /\ arg[p] = Some(TheBlock) /\ scenario_b_log)
            ~> (pc[p] = "done" /\ scenario_b_log
                /\ ret[p] = RetHistory(scenario_b_history))

\* C10: in the list get_block_history returns, each pair holds the state that
\* resulted from its transaction: the replay of the transactions up to and
\* including it, oldest first.
transactions_of(pairs) == [i \in 1..Len(pairs) |-> pairs[i][2]]
HistoryPairsHoldResultingState ==
    \A p \in Procs :
        (pc[p] = "done" /\ ret[p].kind = "history") =>
            LET pairs == ret[p].value
            IN  \A i \in 1..Len(pairs) :
                   /\ pairs[i][1] = run_history(SubSeqTake(transactions_of(pairs), i),
                                                default_block)
                   /\ \A j \in 1..(i - 1) : cmp(pairs[j][2].id, pairs[i][2].id) < 0

\* p's apply_transaction call returns in this step.
apply_returns(p) ==
    /\ pc[p] \in {"apply_body", "undo_history"}
    /\ pc'[p] = "done"
coords_of(p) == arg[p].coords.val

\* C3: a Replace whose expected state differs from the current defaulting
\* state at its coordinate returns None and leaves the World (no Cell is
\* materialized) and the log as they were.
ReplaceMismatchRejected ==
    [][\A p \in Procs :
          (/\ apply_returns(p)
           /\ kind_of(p) = "Replace"
           /\ block_at(world, coords_of(p)) # arg[p].transaction_type.block_current)
          => (/\ ret'[p] = RetApply(None)
              /\ world' = world
              /\ world_line' = world_line)]_vars
ReplaceWasRejected ==
    \E p \in Procs :
        /\ pc[p] = "done"
        /\ ret[p] = RetApply(None)
        /\ kind_of(p) = "Replace"
        /\ block_at(world, coords_of(p)) # arg[p].transaction_type.block_current

\* C4: an Undo whose target id is not in the log returns None and leaves the
\* log and the World as they were.
UndoOfMissingTargetRejected ==
    [][\A p \in Procs :
          (/\ pc[p] = "apply_body"
           /\ pc'[p] # "apply_body"
           /\ kind_of(p) = "Undo"
           /\ arg[p].transaction_type.transaction \notin DOMAIN log)
          => (/\ pc'[p] = "done"
              /\ ret'[p] = RetApply(None)
              /\ world' = world
              /\ world_line' = world_line)]_vars
UndoWasRejected ==
    \E p \in Procs :
        /\ pc[p] = "done"
        /\ ret[p] = RetApply(None)
        /\ kind_of(p) = "Undo"
        /\ arg[p].transaction_type.transaction \notin DOMAIN log

\* C5: no reader reads while a writer is between its write of the log and its
\* write of the World, and every apply_transaction call that returns has
\* either committed (the returned transaction is in the log under a new id and
\* the World holds its effect) or was rejected (World and log untouched).
mid_commit(w) == pc[w] = "undo_history"
reading(r) == pc[r] \in {"gws_read", "gbh_history"}
full_commit(p) ==
    /\ ret'[p].value.some
    /\ LET t == ret'[p].value.val
       IN  /\ t.id \in DOMAIN world_line'.transactions
           /\ world_line'.transactions[t.id] = t
           /\ t.transaction = arg[p]
           /\ pc[p] = "apply_body" =>
                 /\ t.id \notin DOMAIN log
                 /\ block_at(world', coords_of(p)) = arg[p].transaction_type.block_set
full_rejection(p) ==
    /\ ret'[p] = RetApply(None)
    /\ world' = world
    /\ world_line' = world_line
LogIsAppendOnly ==
    /\ []((line_lock.writer = 0 /\ ~line_lock.poisoned) => LogLen = commits)
    /\ [][/\ \A id \in DOMAIN log :
                /\ id \in DOMAIN world_line'.transactions
                /\ world_line'.transactions[id] = log[id]
          /\ \A p \in Procs :
                (apply_returns(p) /\ ret'[p] = RetApply(None)) => world_line' = world_line
         ]_vars
LogGrewPastARejection ==
    /\ LogLen = 2
    /\ commits = 2
    /\ \E p \in Procs : pc[p] = "done" /\ ret[p] = RetApply(None)

\* C7: the first commit gets id (0,0), every later one (previous maximum
\* major + 1, 0): a new id is greater than every id in the log, and the ids of
\* the log are (0,0) .. (n-1,0).
max_major == CHOOSE m \in {k.id : k \in DOMAIN log} : \A k \in DOMAIN log : k.id <= m
new_id_ok(id) ==
    /\ DOMAIN log = {} => id = TransactionID(0, 0)
    /\ DOMAIN log # {} => id = TransactionID(max_major + 1, 0)
    /\ \A old \in DOMAIN log : cmp(old, id) < 0
IdsStrictlyIncrease ==
    /\ [](DOMAIN log = {TransactionID(i, 0) : i \in 0..(LogLen - 1)})
    /\ [][/\ \A id \in DOMAIN world_line'.transactions \ DOMAIN log :
                new_id_ok(id) /\ world_line'.transactions[id].id = id
          /\ \A p \in Procs :
                (pc[p] = "apply_body" /\ pc'[p] = "done" /\ ret'[p].value.some)
                   => new_id_ok(ret'[p].value.val.id)
         ]_vars
BothCallersCommitted ==
    \E p \in Procs : \E q \in Procs :
        /\ p # q
        /\ pc[p] = "done" /\ ret[p].kind = "apply" /\ ret[p].value.some
        /\ pc[q] = "done" /\ ret[q].kind = "apply" /\ ret[q].value.some
        /\ cmp(ret[p].value.val.id, ret[q].value.val.id) < 0

\* C11: in the call of WorldLine::get_block_history made for the Undo of
\* Set, Set, Undo(second Set) at c, the walks end with the three transactions
\* collected: the two Sets and, third, the Undo.
walks_ended(p) ==
    /\ hist[p].todo = <<>>
    /\ ~hist[p].transaction.some
    /\ ~hist[p].pushed
collected(p) == hist[p].set \cup Range(hist[p].walk)
HistoryHoldsUndoChain ==
    \A p \in Procs :
        (pc[p] = "undo_history" /\ scenario_b_log)
            ~> (/\ pc[p] = "undo_history"
                /\ walks_ended(p)
                /\ Ascending(collected(p)) =
                      <<TransactionID(0, 0), TransactionID(1, 0), TransactionID(2, 0)>>)

\* C12: once Set(A)@c, Replace(A -> B)@c are committed and the Undo of the
\* Set is accepted, the Undo commits and the live state at c is the default
\* state.
dependent_replace_log ==
    /\ DOMAIN log = {TransactionID(0, 0), TransactionID(1, 0), TransactionID(2, 0)}
    /\ log[TransactionID(0, 0)].transaction = RawTransaction(new_set(BlockA), Some(TheBlock))
    /\ log[TransactionID(1, 0)].transaction =
          RawTransaction(new_replace(BlockA, BlockB), Some(TheBlock))
    /\ log[TransactionID(2, 0)].transaction =
          RawTransaction(new_undo(TransactionID(0, 0)), None)
UndoFailsDependentReplace ==
    \A p \in Procs :
        (pc[p] = "undo_history" /\ dependent_replace_log /\ BlockA # default_block)
            ~> (/\ pc[p] = "done"
                /\ dependent_replace_log
                /\ ret[p] = RetApply(Some(log[TransactionID(2, 0)]))
                /\ block_at(world, TheBlock) = default_block)

\* C13: once Set(A)@c and u = Undo(the Set) are in the log, a caller's Undo of
\* u commits, and the live state at c is A, the state without u.
undo_of_undo_called(p) ==
    /\ pc[p] = "apply_world"
    /\ arg[p] = RawTransaction(new_undo(TransactionID(1, 0)), None)
    /\ TransactionID(1, 0) \in DOMAIN log
    /\ log[TransactionID(0, 0)].transaction = RawTransaction(new_set(BlockA), Some(TheBlock))
    /\ log[TransactionID(1, 0)].transaction =
          RawTransaction(new_undo(TransactionID(0, 0)), None)
UndoOfUndoRestoresTarget ==
    \A p \in Procs :
        undo_of_undo_called(p)
            ~> (/\ pc[p] = "done"
                /\ ret[p].kind = "apply"
                /\ ret[p].value.some
                /\ block_at(world, TheBlock) = BlockA)

\* C14: no later write changes what a World clone reads: as long as the user
\* holds the same clone, get_block_at and get_block_defaulting on it return
\* after every step what they returned before it, at every coordinate.
reads_of(heap, w) ==
    [c \in GridCoords |-> <<arc_get_block_at(heap, w, c[1], c[2], c[3]),
                            arc_get_block_defaulting(heap, w, c[1], c[2], c[3])>>]
SnapshotIsImmutable ==
    [][(held.snapshot.some /\ held'.snapshot = held.snapshot)
          => reads_of(arcs', held.snapshot.val) = reads_of(arcs, held.snapshot.val)]_vars
SnapshotOutlivedAWrite ==
    /\ held.snapshot.some
    /\ op.name = "World::set_block_defaulting"
    /\ held.snapshot.val.chunks # EmptyMap
    /\ reads_of(arcs, held.grid) # reads_of(arcs, held.snapshot.val)

\* C15: on a Grid none of whose chunks contains c, get_block_at(c) is None and
\* get_block_defaulting(c) is the default state; every Set with a coordinate
\* commits, the first of the log with id (0,0), and get_block_at then returns
\* the state set.
reads_fresh(c) ==
    MapGet(world.chunks, get_chunk_index(world, c[1], c[2])) = None
        => /\ get_block_at(world, c[1], c[2], c[3]) = None
           /\ get_block_defaulting(world, c[1], c[2], c[3]) = default_block
set_ends(p) ==
    /\ pc[p] = "apply_body"
    /\ pc'[p] # "apply_body"
    /\ kind_of(p) = "Set"
    /\ arg[p].coords.some
SetAlwaysCommits ==
    /\ [](\A c \in BuiltCoords : reads_fresh(c))
    /\ [][\A p \in Procs :
             set_ends(p) =>
                /\ pc'[p] = "done"
                /\ ret'[p].value.some
                /\ ret'[p].value.val.transaction = arg[p]
                /\ log = EmptyMap => ret'[p].value.val.id = TransactionID(0, 0)
                /\ get_block_at(world', coords_of(p)[1], coords_of(p)[2], coords_of(p)[3])
                      = Some(arg[p].transaction_type.block_set)]_vars

\* C17: build_transaction yields nothing for a Set or Replace that lacks any
\* of x, y, z, every built or committed Set or Replace carries a coordinate,
\* and no built or committed Undo carries one.
coords_match_kind(t) ==
    IF t.transaction_type.kind = "Undo" THEN t.coords = None ELSE t.coords.some
CoordinatesMatchKind ==
    /\ \A b \in Builders :
          /\ (b.transaction_type.kind # "Undo"
                 /\ (b.coord_x = None \/ b.coord_y = None \/ b.coord_z = None))
                => build_transaction(b) = None
          /\ build_transaction(b).some => coords_match_kind(build_transaction(b).val)
    /\ \A p \in Procs :
          pc[p] \in {"apply_world", "apply_line", "apply_body"} => coords_match_kind(arg[p])
    /\ \A id \in DOMAIN log : coords_match_kind(log[id].transaction)

\* C16: apply_transaction holds the Grid write lock before it takes the
\* TransactionLog write lock, get_world_state holds only the Grid read lock,
\* get_block_history only the TransactionLog read lock; and whenever a caller
\* is inside a call some thread can take a step, so no deadlock is reached.
inside(p) == pc[p] \notin {"idle", "panicked"}
LockDiscipline ==
    /\ \A p \in Procs :
          /\ world_lock.writer = p <=> pc[p] \in {"apply_line", "apply_body", "undo_history"}
          /\ line_lock.writer = p <=> pc[p] \in {"apply_body", "undo_history"}
    /\ world_lock.readers = {p \in Procs : pc[p] = "gws_read"}
    /\ line_lock.readers = {p \in Procs : pc[p] = "gbh_history"}
    /\ (\E p \in Procs : inside(p)) => \E q \in Procs : ENABLED Step(q)
WriterWaitsForLogReader ==
    \E p, q \in Procs :
        /\ pc[p] = "apply_line" /\ world_lock.writer = p /\ ~can_write(line_lock)
        /\ pc[q] = "gbh_history" /\ q \in line_lock.readers

\* C18: TransactionID::cmp is a total order that looks at the major id first
\* and at the minor id only when the majors are equal; it is antisymmetric and
\* transitive, and Equal exactly when both parts are equal.
compared == op.name = "TransactionID::cmp"
CmpIsMajorFirstTotalOrder ==
    compared =>
        /\ op.ab \in {-1, 0, 1}
        /\ op.a.id < op.b.id => op.ab = -1
        /\ op.a.id = op.b.id => op.ab = cmp_u32(op.a.sub_id, op.b.sub_id)
        /\ op.ba = -op.ab
        /\ (op.ab <= 0 /\ op.bc <= 0) => op.ac <= 0
        /\ (op.ab = -1 /\ op.bc <= 0) => op.ac = -1
        /\ (op.ab <= 0 /\ op.bc = -1) => op.ac = -1
        /\ op.ab = 0 <=> (op.a.id = op.b.id /\ op.a.sub_id = op.b.sub_id)
ComparedAcrossMajorAndMinor ==
    /\ compared
    /\ op.a.id = op.b.id /\ op.a.sub_id < op.b.sub_id /\ op.ab = -1
    /\ op.b.id < op.c.id /\ op.b.sub_id > op.c.sub_id /\ op.bc = -1

\* C19: Cuboid::get with any index out of bounds returns the default value,
\* Cuboid::set with any index out of bounds returns None and leaves the
\* volume as it was, and Cuboid::set in bounds returns a volume whose get at
\* the same indices is the value set.
out_of_bounds(c, x, y, z) == x >= c.x_size \/ y >= c.y_size \/ z >= c.z_size
cuboid_set_called == op.name = "Cuboid::set"
CuboidBoundsHandled ==
    /\ "cuboid" \in DOMAIN held =>
          \A x \in 0..(Side + 1) : \A y \in 0..(Side + 1) : \A z \in 0..(Side + 1) :
              out_of_bounds(held.cuboid, x, y, z)
                  => ArcCuboidGet(arcs, held.cuboid, x, y, z) = held.cuboid.default
    /\ cuboid_set_called =>
          IF out_of_bounds(op.self, op.x, op.y, op.z)
          THEN op.result = None /\ held.cuboid = op.self
          ELSE /\ op.result.some
               /\ held.cuboid = op.result.val
               /\ ArcCuboidGet(arcs, op.result.val, op.x, op.y, op.z) = op.value
OutOfBoundsSetAfterAWrite ==
    /\ cuboid_set_called
    /\ out_of_bounds(op.self, op.x, op.y, op.z)
    /\ op.result = None
    /\ \E x \in 0..(Side - 1) : \E y \in 0..(Side - 1) : \E z \in 0..(Side - 1) :
          ArcCuboidGet(arcs, held.cuboid, x, y, z) # held.cuboid.default

\* C20: after one in-bounds Cuboid::set at (x, y, z) every layer other than z
\* of the returned volume is the same Arc as in the volume it was called on,
\* layer z is an Arc the old volume does not hold, and the old volume still
\* reads its old value at (x, y, z).
layers(c) == {c.data[i] : i \in DOMAIN c.data}
CuboidSetSharesOtherLayers ==
    (cuboid_set_called /\ op.result.some) =>
        /\ DOMAIN op.result.val.data = DOMAIN op.self.data
        /\ \A i \in DOMAIN op.self.data :
              i # op.z => op.result.val.data[i] = op.self.data[i]
        /\ op.result.val.data[op.z] \notin layers(op.self)
        /\ ArcCuboidGet(arcs, op.self, op.x, op.y, op.z) = op.old
SetChangedAValueInOneLayer ==
    /\ cuboid_set_called
    /\ op.result.some
    /\ op.old # op.value
    /\ op.old # op.self.default
    /\ ArcCuboidGet(arcs, op.result.val, op.x, op.y, op.z) = op.value
    /\ \E i \in DOMAIN op.self.data : i # op.z /\ op.result.val.data[i] = op.self.data[i]

\* C21: Purse::set(i, v) returns a Purse of the same length whose slot i holds
\* v and whose other slots are the same Arcs as in the source; Purse::push(v)
\* returns a Purse one longer whose last slot holds v and whose prefix slots
\* are the same Arcs as in the source; after either, the source has the
\* length and reads the values it had before.
source_unchanged == reads_through(arcs, op.self) = op.old
PurseIsPersistent ==
    /\ op.name = "Purse::set" =>
          /\ PurseLen(op.result) = PurseLen(op.self)
          /\ PurseIndex(arcs, op.result, op.index) = op.element
          /\ \A j \in DOMAIN op.self : j # op.index => op.result[j] = op.self[j]
          /\ source_unchanged
    /\ op.name = "Purse::push" =>
          /\ PurseLen(op.result) = PurseLen(op.self) + 1
          /\ PurseIndex(arcs, op.result, PurseLen(op.self)) = op.element
          /\ \A j \in DOMAIN op.self : op.result[j] = op.self[j]
          /\ source_unchanged
SetAfterPushesKeptTheSource ==
    /\ op.name = "Purse::set"
    /\ PurseLen(op.self) >= 2
    /\ op.old[op.index] # op.element
    /\ PurseIndex(arcs, op.result, op.index) = op.element

\* C22: run_history leaves out every Set or Replace whose own id is the target
\* of an Undo present in the slice, and nothing else: its result is the fold
\* over the Sets and Replaces that no Undo of the slice targets.
replayed == op.name = "run_history"
undo_targets(history) ==
    {history[i].transaction.transaction_type.transaction :
        i \in {j \in 1..Len(history) : is_undo(history[j])}}
not_undone(history) ==
    LET Kept(x) == ~is_undo(x) /\ x.id \notin undo_targets(history)
    IN  SelectSeq(history, Kept)
ReplayDropsUndoneTransactions ==
    replayed => op.result = FoldBlocks(default_block, not_undone(op.history))

\* C23: run_history folds what its filters leave, in ascending id order, from
\* the default state: a Set sets the accumulator to its new state, a Replace
\* sets it to its new state only when the accumulator equals the expected
\* state, an Undo leaves it alone, and an empty slice yields the default state.
type_of(t) == t.transaction.transaction_type
RECURSIVE folded(_, _)
folded(acc, s) ==
    IF s = <<>> THEN acc
    ELSE LET tt == type_of(Head(s))
             next == IF tt.kind = "Set" THEN tt.block_set
                     ELSE IF tt.kind = "Replace" /\ acc = tt.block_current THEN tt.block_set
                     ELSE acc
         IN  folded(next, Tail(s))
ascending(s) == \A i \in 1..Len(s) : \A j \in 1..Len(s) : i < j => cmp(s[i].id, s[j].id) < 0
ReplayFoldsInAscendingOrder ==
    replayed =>
        /\ ascending(final_history(op.history))
        /\ op.result = folded(default_block, final_history(op.history))
        /\ op.history = <<>> => op.result = default_block
ReplaySkippedAReplace ==
    /\ replayed
    /\ \E i \in 1..Len(op.history) :
          /\ type_of(op.history[i]).kind = "Replace"
          /\ run_history(SubSeqTake(op.history, i - 1), default_block)
                 # type_of(op.history[i]).block_current
          /\ \E j \in 1..(i - 1) : type_of(op.history[j]).kind = "Set"
    /\ \E i \in 1..Len(op.history) : is_undo(op.history[i])

\* C24: get_undo(id) is the lowest id of an Undo of the log whose target is
\* id, and None when the log holds no such Undo (so that the chain built by
\* get_undo_history goes from a transaction to the Undo that targets it and
\* ends).
undos_of(id) ==
    {k \in DOMAIN log : is_undo(log[k]) /\ log[k].transaction.transaction_type.transaction = id}
lowest(S) == CHOOSE a \in S : \A b \in S : cmp(a, b) <= 0
GetUndoReturnsTheUndo ==
    \A id \in DOMAIN log :
        get_undo(world_line, id) =
            IF undos_of(id) = {} THEN None ELSE Some(lowest(undos_of(id)))

\* C25: for every id of the log get_undone_block(id) is the coordinate of the
\* Set or Replace reached from id through Undo -> target links, which is
\* Some; for an id the log does not hold it is None; and no call of
\* apply_transaction dies on the unwrap of its result.
RECURSIVE links(_, _)
links(id, n) ==
    IF n = 0 \/ id \notin DOMAIN log \/ ~is_undo(log[id]) THEN id
    ELSE links(log[id].transaction.transaction_type.transaction, n - 1)
chain_end(id) == links(id, LogLen)
UndoneBlockIsFound ==
    /\ \A id \in DOMAIN log :
          /\ chain_end(id) \in DOMAIN log
          /\ ~is_undo(log[chain_end(id)])
          /\ get_undone_block(world_line, id).some
          /\ get_undone_block(world_line, id) = log[chain_end(id)].transaction.coords
    /\ \A i \in 0..MaxChain :
          TransactionID(i, 0) \notin DOMAIN log
              => get_undone_block(world_line, TransactionID(i, 0)) = None
    /\ \A p \in Procs : pc[p] # "panicked"
UndoOfUndoInTheLog ==
    \E id \in DOMAIN log :
        /\ is_undo(log[id])
        /\ is_undo(log[log[id].transaction.transaction_type.transaction])
        /\ get_undone_block(world_line, id) = Some(TheBlock)

\* C26: World::get_chunk_index floors each axis to a multiple of the chunk
\* size, for negative coordinates too: the key k of (x, y) is a multiple of
\* chunk_size on each axis and k <= x < k + chunk_size, k <= y < k + chunk_size.
floors(k, v, size) == k % size = 0 /\ k <= v /\ v < k + size
ChunkIndexFloors ==
    op.name = "World::get_chunk_index" =>
        /\ floors(op.index[1], op.x, world.chunk_size)
        /\ floors(op.index[2], op.y, world.chunk_size)

\* C27: a chunk made by the first write into it has all-default content: after
\* set_block_defaulting(c, S) on a World that has no chunk for c, every other
\* coordinate of that chunk (at another offset than c's) reads the default
\* state, as it did before the chunk existed.
grid_set_called == op.name = "World::set_block_defaulting"
index_of(w, c) == get_chunk_index(w, c[1], c[2])
offset_of(w, c) == convert_coords(w, c[1], c[2], c[3])
MaterializedChunkReadsDefault ==
    (grid_set_called /\ MapGet(op.self.chunks, index_of(op.self, op.coords)) = None) =>
        \A c \in GridCoords :
            (index_of(op.self, c) = index_of(op.self, op.coords)
                /\ offset_of(op.self, c) # offset_of(op.self, op.coords))
            => /\ arc_get_block_defaulting(arcs, held.grid, c[1], c[2], c[3])
                     = op.self.default_block
               /\ arc_get_block_defaulting(arcs, held.grid, c[1], c[2], c[3])
                     = arc_get_block_defaulting(arcs, op.self, c[1], c[2], c[3])

\* C28: in an ArrayMatrix of any width and height every in-range (x, y) has a
\* slot of its own inside the Purse: set at an in-range coordinate never
\* fails, get there then returns the value set, and get at every other
\* in-range coordinate returns what it returned before.
in_range(m) == {c \in (0..(m.x_size - 1)) \X (0..(m.y_size - 1)) : TRUE}
EveryCellHasItsOwnSlot ==
    /\ op.name # "panic"
    /\ op.name = "ArrayMatrix::set" =>
          /\ ArrayMatrixGet(arcs, held.matrix, op.x, op.y) = Some(op.data)
          /\ \A c \in in_range(op.self) :
                c # <<op.x, op.y>>
                    => /\ ArrayMatrixSlot(op.self, c[1], c[2]) < PurseLen(op.self.data)
                       /\ ArrayMatrixSlot(op.self, c[1], c[2])
                              # ArrayMatrixSlot(op.self, op.x, op.y)
                       /\ ArrayMatrixGet(arcs, held.matrix, c[1], c[2])
                              = ArrayMatrixGet(arcs, op.self, c[1], c[2])

\* C29: when no call is in progress the live World agrees with the log at
\* every coordinate c: get_block_defaulting(c) is run_history of the log's
\* history of c from the default state.
quiescent == \A p \in Procs : pc[p] \in {"idle", "done"}
log_history(c) == history_output(world_line, get_transactions_for_block(world_line, c))
WorldAgreesWithLog ==
    quiescent =>
        \A c \in Coords : block_at(world, c) = run_history(log_history(c), default_block)

\* C30: set_block_defaulting at c changes the state read at c only: every
\* other coordinate reads on the returned World what it read on the source
\* World, or the content of the new chunk when c's chunk was made by this
\* call; and no other coordinate has the chunk index and the offset of c.
new_chunk_content(w) == fuse(w.default_block.block, BlankMeta)
made_chunk_of(w, c) ==
    /\ MapGet(w.chunks, index_of(w, c)) = None
    /\ index_of(w, c) = index_of(w, op.coords)
slot_of(w, c) == <<index_of(w, c), offset_of(w, c)>>
SetChangesOneCoordinateOnly ==
    grid_set_called =>
        \A c \in GridCoords :
            c # op.coords =>
                /\ \/ arc_get_block_defaulting(arcs, held.grid, c[1], c[2], c[3])
                          = arc_get_block_defaulting(arcs, op.self, c[1], c[2], c[3])
                   \/ /\ made_chunk_of(op.self, c)
                      /\ arc_get_block_defaulting(arcs, held.grid, c[1], c[2], c[3])
                             = new_chunk_content(op.self)
                /\ slot_of(op.self, c) # slot_of(op.self, op.coords)

\* C31: of two callers who apply Replace(X -> Y) and Replace(X -> Z) at one
\* coordinate whose state is X (Y and Z other than X), in every interleaving
\* exactly one commits, the other gets None, and the coordinate then reads the
\* state of the one that committed.
expects_default(p) ==
    /\ pc[p] \in {"apply_world", "apply_line", "apply_body", "done"}
    /\ "transaction_type" \in DOMAIN arg[p]
    /\ kind_of(p) = "Replace"
    /\ arg[p].transaction_type.block_current = default_block
    /\ arg[p].transaction_type.block_set # default_block
racing(p, q) ==
    /\ p # q
    /\ expects_default(p) /\ expects_default(q)
    /\ coords_of(p) = coords_of(q)
committed(p) == pc[p] = "done" /\ ret[p].value.some
refused(p) == pc[p] = "done" /\ ret[p].value = None
ReplaceIsExclusive ==
    \A p \in Procs : \A q \in Procs :
        racing(p, q) =>
            /\ ~(committed(p) /\ committed(q))
            /\ ~(refused(p) /\ refused(q))
            /\ committed(p) => /\ block_at(world, coords_of(p)) = arg[p].transaction_type.block_set
                               /\ DOMAIN log = {ret[p].value.val.id}
            /\ (pc[p] # "done" /\ pc[q] # "done")
                   => /\ block_at(world, coords_of(p)) = default_block
                      /\ DOMAIN log = {}
OneReplaceWonTheRace ==
    \E p \in Procs : \E q \in Procs :
        /\ racing(p, q)
        /\ committed(p)
        /\ refused(q)
        /\ arg[p].transaction_type.block_set # arg[q].transaction_type.block_set
        /\ block_at(world, coords_of(p)) = arg[p].transaction_type.block_set
====
